---- MODULE Spec2Model ----
(***************************************************************************)
(* Model of the movie CRUD API of server.js: the SQLite table `movies`,    *)
(* the poster files under uploads/posters, the multer upload middleware    *)
(* and the five Express route handlers; and of the page script main.js:    *)
(* the overlay panels, the trailer modal, the mobile menu, the theme       *)
(* toggle and the renderer of the project list.                            *)
(*                                                                         *)
(* Strings are sequences of byte values (UTF-8), so that SQLite's BINARY   *)
(* collation, the regular expression test of the file filter and           *)
(* toLowerCase are computed as the code computes them.                     *)
(***************************************************************************)
EXTENDS Integers, Sequences, FiniteSets, TLC

VARIABLES
    movies,     \* the table: [set of live ids -> row]
    seq,        \* sqlite_sequence.seq of the AUTOINCREMENT key
    files,      \* names of the files present in uploads/posters
    fileCtr,    \* number of unique suffixes generated so far
    clock,      \* CURRENT_TIMESTAMP
    pending,    \* requests whose upload multer has stored, handler not yet run
    issued,     \* history: ids assigned by INSERT, in order
    uploaded,   \* history: ids of the rows inserted by a POST with a file part
    last,       \* the request answered by the latest step and its response
    overlayActive,  \* overlay panels whose classList holds 'active'
    overflow,       \* document.body.style.overflow
    modalActive,    \* the trailer modal's classList holds 'active'
    iframeSrc,      \* the src assigned to the trailer iframe
    navActive,      \* navLinks.classList holds 'active'
    lightMode,      \* document.body.classList holds 'light-mode'
    theme,          \* localStorage item 'theme', "null" when not set
    event,          \* the latest event the page handled
    projectsGrid,   \* what projectsGrid.innerHTML shows
    renderer,       \* position of the async render handler
    uncaught        \* the render handler's promise was rejected

\* the state of the server
serverVars == <<movies, seq, files, fileCtr, clock, pending, issued, uploaded, last>>

\* the state of the page in the browser
clientVars == <<overlayActive, overflow, modalActive, iframeSrc, navActive,
                lightMode, theme, event, projectsGrid, renderer, uncaught>>

vars == <<serverVars, clientVars>>

\* ------------------------------------------------------------------ bounds
NumSeed == 1        \* rows of seedMovies inserted at start-up
MaxCreates == 1     \* INSERTs by POST requests under Spec
MaxInserts == 3     \* INSERTs by POST requests under SpecRows
MaxUploads == 2     \* files written by multer
MaxClock == 2       \* ticks of CURRENT_TIMESTAMP under SpecClock
MaxPending == 1     \* requests between multer and their handler

\* --------------------------------------------------------- program constants
fileSize == 5 * 1024 * 1024

\* ------------------------------------------------------------------ strings
Max(S) == CHOOSE x \in S : \A y \in S : y <= x

\* String.prototype.toLowerCase on ASCII
toLowerCase(s) == [i \in 1..Len(s) |-> IF s[i] >= 65 /\ s[i] <= 90 THEN s[i] + 32 ELSE s[i]]

\* String.prototype.includes / an unanchored literal RegExp alternative
includes(s, pat) ==
    \E i \in 1..(Len(s) - Len(pat) + 1) : SubSeq(s, i, i + Len(pat) - 1) = pat

\* path.extname: from the last '.' to the end; '' when there is no '.'
\* or the only '.' is the first character
extname(name) ==
    LET dots == {i \in 2..Len(name) : name[i] = 46}
    IN  IF dots = {} THEN <<>> ELSE SubSeq(name, Max(dots), Len(name))

\* memcmp order of two strings (SQLite BINARY collation): -1, 0 or 1
RECURSIVE memcmp(_, _)
memcmp(a, b) ==
    IF a = <<>> /\ b = <<>> THEN 0
    ELSE IF a = <<>> THEN -1
    ELSE IF b = <<>> THEN 1
    ELSE IF Head(a) < Head(b) THEN -1
    ELSE IF Head(a) > Head(b) THEN 1
    ELSE memcmp(Tail(a), Tail(b))

\* ---------------------------------------------------------------- JS values
Undefined == [t |-> "undefined"]
JsNull == [t |-> "jsnull"]
Str(s) == [t |-> "string", s |-> s]
Num(n) == [t |-> "number", n |-> n]

\* JavaScript truthiness of the values a request body holds
Truthy(v) ==
    CASE v.t = "undefined" -> FALSE
      [] v.t = "jsnull" -> FALSE
      [] v.t = "string" -> Len(v.s) > 0
      [] v.t = "number" -> v.n # 0

\* the expression `x || null`
OrNull(v) == IF Truthy(v) THEN v ELSE JsNull

\* --------------------------------------------------------------- SQL values
Null == [t |-> "null"]
Text(s) == [t |-> "text", s |-> s]
Integer(n) == [t |-> "integer", n |-> n]

IsDigits(s) == Len(s) > 0 /\ \A i \in 1..Len(s) : s[i] >= 48 /\ s[i] <= 57

RECURSIVE ParseInt(_)
ParseInt(s) == IF s = <<>> THEN 0 ELSE 10 * ParseInt(SubSeq(s, 1, Len(s) - 1)) + (s[Len(s)] - 48)

\* a binding that turns null into the string 'null'
BindTextStringify(v) ==
    CASE v.t = "undefined" -> Null
      [] v.t = "jsnull" -> [t |-> "text", s |-> <<110,117,108,108>>]
      [] v.t = "string" -> [t |-> "text", s |-> v.s]

\* better-sqlite3 parameter binding followed by the column's TEXT affinity
BindText(v) ==
    CASE v.t = "undefined" -> Null
      [] v.t = "jsnull" -> Null
      [] v.t = "string" -> Text(v.s)

\* binding followed by INTEGER affinity: a well-formed integer literal or a
\* number becomes an INTEGER, any other text stays TEXT
BindInteger(v) ==
    CASE v.t = "undefined" -> Null
      [] v.t = "jsnull" -> Null
      [] v.t = "number" -> Integer(v.n)
      [] v.t = "string" -> IF IsDigits(v.s) THEN Integer(ParseInt(v.s)) ELSE Text(v.s)

\* ------------------------------------------------------------- the seed data
seedMovies == <<
    \* 'Tuntematon Sotilas' (2017), dop 'Mika Orasmaa', 'Elokuvaosakeyhtiö Suomi 2017'
    [title |-> <<84,117,110,116,101,109,97,116,111,110,32,83,111,116,105,108,97,115>>,
     year |-> 2017,
     poster_url |-> <<104,116,116,112,115,58,47,47,105,109,97,103,101,46,116,109,100,98,46,111,114,103,47,116,47,112,47,119,53,48,48,47,118,79,105,112,101,50,109,121,105,50,54,85,78,102,89,49,117,102,86,56,89,119,108,119,113,98,101,46,106,112,103>>,
     dop |-> <<77,105,107,97,32,79,114,97,115,109,97,97>>,
     bobo_crew |-> <<77,97,116,116,105,32,75,117,117,115,110,105,101,109,105,32,40,68,73,84,41>>,
     trailer_url |-> <<104,116,116,112,115,58,47,47,119,119,119,46,121,111,117,116,117,98,101,46,99,111,109,47,119,97,116,99,104,63,118,61,52,100,65,97,76,98,115,81,83,122,73>>,
     production_company |-> <<69,108,111,107,117,118,97,111,115,97,107,101,121,104,116,105,195,182,32,83,117,111,109,105,32,50,48,49,55>>],
    \* 'Hevi Reissu' (2018), dop 'Tuomo Hutri', 'Making Movies'
    [title |-> <<72,101,118,105,32,82,101,105,115,115,117>>,
     year |-> 2018,
     poster_url |-> <<104,116,116,112,115,58,47,47,105,109,97,103,101,46,116,109,100,98,46,111,114,103,47,116,47,112,47,119,53,48,48,47,120,74,110,98,77,84,114,74,50,102,108,49,65,88,65,75,120,51,52,113,117,56,121,77,68,110,118,46,106,112,103>>,
     dop |-> <<84,117,111,109,111,32,72,117,116,114,105>>,
     bobo_crew |-> <<77,97,116,116,105,32,75,117,117,115,110,105,101,109,105,32,40,68,73,84,41>>,
     trailer_url |-> <<104,116,116,112,115,58,47,47,119,119,119,46,121,111,117,116,117,98,101,46,99,111,109,47,119,97,116,99,104,63,118,61,86,90,106,71,110,119,77,80,71,88,103>>,
     production_company |-> <<77,97,107,105,110,103,32,77,111,118,105,101,115>>],
    \* 'Laugh or Die' (2018), dop 'Rauno Ronkainen', 'Helsinki-filmi'
    [title |-> <<76,97,117,103,104,32,111,114,32,68,105,101>>,
     year |-> 2018,
     poster_url |-> <<104,116,116,112,115,58,47,47,105,109,97,103,101,46,116,109,100,98,46,111,114,103,47,116,47,112,47,119,53,48,48,47,55,75,100,109,75,77,99,77,119,114,77,88,118,80,88,111,75,48,78,55,109,77,57,115,78,78,119,46,106,112,103>>,
     dop |-> <<82,97,117,110,111,32,82,111,110,107,97,105,110,101,110>>,
     bobo_crew |-> <<77,97,116,116,105,32,75,117,117,115,110,105,101,109,105,32,40,68,73,84,41>>,
     trailer_url |-> <<104,116,116,112,115,58,47,47,119,119,119,46,121,111,117,116,117,98,101,46,99,111,109,47,119,97,116,99,104,63,118,61,52,98,55,103,70,48,52,67,112,72,81>>,
     production_company |-> <<72,101,108,115,105,110,107,105,45,102,105,108,109,105>>],
    \* 'Oma maa' (2018), dop 'Rauno Ronkainen', 'Elokuvaosakeyhtiö Aamu'
    [title |-> <<79,109,97,32,109,97,97>>,
     year |-> 2018,
     poster_url |-> <<104,116,116,112,115,58,47,47,105,109,97,103,101,46,116,109,100,98,46,111,114,103,47,116,47,112,47,119,53,48,48,47,55,82,97,70,116,122,120,116,97,105,79,50,49,118,121,86,107,71,102,120,108,98,80,86,80,86,48,46,106,112,103>>,
     dop |-> <<82,97,117,110,111,32,82,111,110,107,97,105,110,101,110>>,
     bobo_crew |-> <<77,97,116,116,105,32,75,117,117,115,110,105,101,109,105,32,40,68,73,84,41>>,
     trailer_url |-> <<104,116,116,112,115,58,47,47,119,119,119,46,121,111,117,116,117,98,101,46,99,111,109,47,119,97,116,99,104,63,118,61,71,95,50,84,54,108,95,82,110,120,48>>,
     production_company |-> <<69,108,111,107,117,118,97,111,115,97,107,101,121,104,116,105,195,182,32,65,97,109,117>>],
    \* 'Veljeni Vartija' (2018), dop 'Tuomo Hutri', 'Solar Films'
    [title |-> <<86,101,108,106,101,110,105,32,86,97,114,116,105,106,97>>,
     year |-> 2018,
     poster_url |-> <<104,116,116,112,115,58,47,47,105,109,97,103,101,46,116,109,100,98,46,111,114,103,47,116,47,112,47,119,53,48,48,47,98,81,83,52,51,72,83,76,90,122,77,106,90,107,99,72,74,122,52,102,71,99,55,102,78,100,122,46,106,112,103>>,
     dop |-> <<84,117,111,109,111,32,72,117,116,114,105>>,
     bobo_crew |-> <<77,97,116,116,105,32,75,117,117,115,110,105,101,109,105,32,40,68,73,84,41>>,
     trailer_url |-> <<104,116,116,112,115,58,47,47,119,119,119,46,121,111,117,116,117,98,101,46,99,111,109,47,119,97,116,99,104,63,118,61,99,77,84,65,85,114,51,78,109,54,73>>,
     production_company |-> <<83,111,108,97,114,32,70,105,108,109,115>>],
    \* 'Tuntematon mestari' (2018), dop 'Peter Flinckenberg', 'Inland Film Company'
    [title |-> <<84,117,110,116,101,109,97,116,111,110,32,109,101,115,116,97,114,105>>,
     year |-> 2018,
     poster_url |-> <<104,116,116,112,115,58,47,47,105,109,97,103,101,46,116,109,100,98,46,111,114,103,47,116,47,112,47,119,53,48,48,47,56,80,87,70,66,84,56,75,56,89,110,70,116,121,113,97,65,77,51,71,98,100,122,89,111,77,86,46,106,112,103>>,
     dop |-> <<80,101,116,101,114,32,70,108,105,110,99,107,101,110,98,101,114,103>>,
     bobo_crew |-> <<77,97,116,116,105,32,75,117,117,115,110,105,101,109,105,32,40,68,73,84,41>>,
     trailer_url |-> <<104,116,116,112,115,58,47,47,119,119,119,46,121,111,117,116,117,98,101,46,99,111,109,47,119,97,116,99,104,63,118,61,95,106,66,76,121,74,81,72,82,51,81>>,
     production_company |-> <<73,110,108,97,110,100,32,70,105,108,109,32,67,111,109,112,97,110,121>>],
    \* 'Ihmisen osa' (2018), dop 'Pietari Peltola', 'Bufo'
    [title |-> <<73,104,109,105,115,101,110,32,111,115,97>>,
     year |-> 2018,
     poster_url |-> <<104,116,116,112,115,58,47,47,105,109,97,103,101,46,116,109,100,98,46,111,114,103,47,116,47,112,47,119,53,48,48,47,105,76,109,89,88,54,103,75,51,114,88,104,78,108,56,84,87,89,106,114,67,120,115,85,75,108,120,46,106,112,103>>,
     dop |-> <<80,105,101,116,97,114,105,32,80,101,108,116,111,108,97>>,
     bobo_crew |-> <<77,97,116,116,105,32,75,117,117,115,110,105,101,109,105,32,40,68,73,84,41>>,
     trailer_url |-> <<104,116,116,112,115,58,47,47,119,119,119,46,121,111,117,116,117,98,101,46,99,111,109,47,119,97,116,99,104,63,118,61,101,70,121,110,107,81,108,57,71,101,107>>,
     production_company |-> <<66,117,102,111>>],
    \* 'Joulumaa' (2017), dop 'Hannu-Pekka Vitikainen', 'Solar Films'
    [title |-> <<74,111,117,108,117,109,97,97>>,
     year |-> 2017,
     poster_url |-> <<104,116,116,112,115,58,47,47,105,109,97,103,101,46,116,109,100,98,46,111,114,103,47,116,47,112,47,119,53,48,48,47,117,101,65,88,98,113,70,122,83,109,113,113,74,49,108,52,80,120,82,107,105,75,120,76,78,86,72,46,106,112,103>>,
     dop |-> <<72,97,110,110,117,45,80,101,107,107,97,32,86,105,116,105,107,97,105,110,101,110>>,
     bobo_crew |-> <<77,97,116,116,105,32,75,117,117,115,110,105,101,109,105,32,40,68,73,84,41>>,
     trailer_url |-> <<104,116,116,112,115,58,47,47,119,119,119,46,121,111,117,116,117,98,101,46,99,111,109,47,119,97,116,99,104,63,118,61,69,51,65,51,81,49,80,67,55,79,107>>,
     production_company |-> <<83,111,108,97,114,32,70,105,108,109,115>>]
>>

\* ------------------------------------------------------------------- inputs
NoFile == [t |-> "nofile"]
NoRow == [t |-> "norow"]
NoBody == [t |-> "nobody"]

Fields == {"title", "year", "poster_url", "dop", "bobo_crew", "imdb_url",
           "tmdb_url", "trailer_url", "production_company", "synopsis"}
TextFields == Fields \ {"title", "year"}

EmptyBody == [f \in Fields |-> Undefined]

\* {title: 'Test Film'}
bodyTitleOnly == [EmptyBody EXCEPT !.title = Str(<<84,101,115,116,32,70,105,108,109>>)]
\* {title: 'Test Film', year: '2020'}
bodyScenario == [bodyTitleOnly EXCEPT !.year = Str(<<50,48,50,48>>)]
\* a submitted form: every field is sent, the blank ones as ''
bodyForm ==
    [title |-> Str(<<65,108,112,104,97>>),          \* 'Alpha'
     year |-> Str(<<50,48,49,56>>),                 \* '2018'
     poster_url |-> Str(<<104,116,116,112,115,58,47,47,120,47,116>>),
     dop |-> Str(<<>>),
     bobo_crew |-> Str(<<77,97,116,116,105>>),
     imdb_url |-> Str(<<>>),
     tmdb_url |-> Str(<<>>),
     trailer_url |-> Str(<<104,116,116,112,115,58,47,47,120,47,116>>),
     production_company |-> Str(<<>>),
     synopsis |-> Str(<<>>)]
\* a JSON body {title: 'Beta', year: 0, dop: 'Bufo'}
bodyJson ==
    [EmptyBody EXCEPT !.title = Str(<<66,101,116,97>>), !.year = Num(0),
                      !.dop = Str(<<66,117,102,111>>)]
\* {year: '2020'}: the required title is missing
bodyNoTitle == [EmptyBody EXCEPT !.year = Str(<<50,48,50,48>>)]

Bodies == {bodyTitleOnly, bodyForm, bodyJson, bodyNoTitle}
\* a JSON body {title: 'Beta', year: 2018}
bodyJsonYear == [EmptyBody EXCEPT !.title = Str(<<66,101,116,97>>), !.year = Num(2018)]

RowBodies == Bodies \cup {bodyScenario, bodyJsonYear}

\* a title field that is sent and empty
bodyEmptyTitle == [EmptyBody EXCEPT !.title = Str(<<>>), !.dop = Str(<<66,117,102,111>>)]

TitleBodies == Bodies \cup {bodyEmptyTitle}

\* the file part of a multipart request: originalname, mimetype, size in bytes
Upload(name, mime, size) == [originalname |-> name, mimetype |-> mime, size |-> size]

image_jpeg == <<105,109,97,103,101,47,106,112,101,103>>
image_gif == <<105,109,97,103,101,47,103,105,102>>

Uploads ==
    {Upload(<<97,46,74,80,71>>, image_jpeg, 1024),               \* a.JPG
     Upload(<<97,46,103,105,102>>, image_gif, 1024),             \* a.gif
     Upload(<<97,46,106,112,103,120>>, image_jpeg, 1024),        \* a.jpgx
     Upload(<<97,46,74,80,71>>, image_gif, 1024),                \* a.JPG sent as image/gif
     Upload(<<97,46,74,80,71>>, image_jpeg, fileSize + 1)}       \* a.JPG, over the limit

\* ids a request can name: the ids the table can hold (each is absent before
\* its INSERT and after its DELETE)
Ids == 1..(NumSeed + MaxCreates)
RowIds == 1..(NumSeed + MaxInserts)

\* ------------------------------------------------------------- upload (multer)
\* allowedTypes = /jpeg|jpg|png|webp/ ; RegExp.prototype.test
allowedTypes(s) ==
    \/ includes(s, <<106,112,101,103>>)
    \/ includes(s, <<106,112,103>>)
    \/ includes(s, <<112,110,103>>)
    \/ includes(s, <<119,101,98,112>>)

fileFilter(file) ==
    /\ allowedTypes(toLowerCase(extname(file.originalname)))
    /\ allowedTypes(file.mimetype)

\* a file name without the unique suffix
filenameNoSuffix(ctr, file) == [suffix |-> 0, ext |-> extname(file.originalname)]

\* storage.filename: a fresh unique suffix followed by the original extension
filename(ctr, file) == [suffix |-> ctr + 1, ext |-> extname(file.originalname)]

\* `/uploads/posters/${req.file.filename}`
PosterLocal(name) == [t |-> "text", dir |-> "/uploads/posters/", file |-> name]

\* a path joined to the wrong directory: it names no file of uploadsDir
DiskFileWrongDir(poster_local) == [suffix |-> 0, ext |-> <<>>]

\* path.join(__dirname, poster_local): the file of uploadsDir it names
DiskFile(poster_local) == poster_local.file

\* a test that finds every file
existsSyncAlways(disk, poster_local) == TRUE

existsSync(disk, poster_local) == DiskFile(poster_local) \in disk

\* fs.unlinkSync throws: the file is not there (ENOENT), or it cannot be
\* removed (fails: EACCES, EBUSY, ...)
unlinkSyncThrows(disk, poster_local, fails) == fails \/ DiskFile(poster_local) \notin disk

\* ------------------------------------------------------------------ the table
NextRowidMax(table, s) == IF DOMAIN table = {} THEN 1 ELSE Max(DOMAIN table) + 1

\* INTEGER PRIMARY KEY AUTOINCREMENT: one more than the largest rowid ever used
NextRowid(table, s) == s + 1

\* the column list and VALUES of the INSERT / the SET list of the UPDATE
Columns(b, poster_local) ==
    [title |-> BindText(b.title),
     year |-> BindInteger(OrNull(b.year)),
     poster_url |-> BindText(OrNull(b.poster_url)),
     poster_local |-> poster_local,
     dop |-> BindText(OrNull(b.dop)),
     bobo_crew |-> BindText(OrNull(b.bobo_crew)),
     imdb_url |-> BindText(OrNull(b.imdb_url)),
     tmdb_url |-> BindText(OrNull(b.tmdb_url)),
     trailer_url |-> BindText(OrNull(b.trailer_url)),
     production_company |-> BindText(OrNull(b.production_company)),
     synopsis |-> BindText(OrNull(b.synopsis))]

\* a row whose created_at is set by every write
RowRestamped(id, cols, created, updated) ==
    [id |-> id,
     title |-> cols.title,
     year |-> cols.year,
     poster_url |-> cols.poster_url,
     poster_local |-> cols.poster_local,
     dop |-> cols.dop,
     bobo_crew |-> cols.bobo_crew,
     imdb_url |-> cols.imdb_url,
     tmdb_url |-> cols.tmdb_url,
     trailer_url |-> cols.trailer_url,
     production_company |-> cols.production_company,
     synopsis |-> cols.synopsis,
     created_at |-> updated,
     updated_at |-> updated]

\* a row of CREATE TABLE movies
Row(id, cols, created, updated) ==
    [id |-> id,
     title |-> cols.title,
     year |-> cols.year,
     poster_url |-> cols.poster_url,
     poster_local |-> cols.poster_local,
     dop |-> cols.dop,
     bobo_crew |-> cols.bobo_crew,
     imdb_url |-> cols.imdb_url,
     tmdb_url |-> cols.tmdb_url,
     trailer_url |-> cols.trailer_url,
     production_company |-> cols.production_company,
     synopsis |-> cols.synopsis,
     created_at |-> created,
     updated_at |-> updated]

\* title TEXT NOT NULL
NotNullOk(cols) == cols.title # Null

\* the seeding INSERT: seven columns given, the others default to NULL
SeedRow(i, now) ==
    LET m == seedMovies[i]
    IN  Row(i,
            [title |-> Text(m.title), year |-> Integer(m.year),
             poster_url |-> Text(m.poster_url), poster_local |-> Null,
             dop |-> Text(m.dop), bobo_crew |-> Text(m.bobo_crew),
             imdb_url |-> Null, tmdb_url |-> Null,
             trailer_url |-> Text(m.trailer_url),
             production_company |-> Text(m.production_company),
             synopsis |-> Null],
            now, now)

\* ------------------------------------------------------------------- ORDER BY
\* storage class order of SQLite: NULL < INTEGER < TEXT
ClassRank(v) == CASE v.t = "null" -> 0 [] v.t = "integer" -> 1 [] v.t = "text" -> 2

\* comparison of two SQL values: -1, 0 or 1
sqlCompare(a, b) ==
    IF ClassRank(a) # ClassRank(b)
    THEN (IF ClassRank(a) < ClassRank(b) THEN -1 ELSE 1)
    ELSE CASE a.t = "null" -> 0
           [] a.t = "integer" -> (IF a.n < b.n THEN -1 ELSE IF a.n > b.n THEN 1 ELSE 0)
           [] a.t = "text" -> memcmp(a.s, b.s)

\* ORDER BY year ASC, title ASC
SortsBeforeAsc(a, b) ==
    \/ sqlCompare(a.year, b.year) = -1
    \/ sqlCompare(a.year, b.year) = 0 /\ sqlCompare(a.title, b.title) = -1

\* ORDER BY year DESC, title ASC: a sorts strictly before b
SortsBefore(a, b) ==
    \/ sqlCompare(a.year, b.year) = 1
    \/ sqlCompare(a.year, b.year) = 0 /\ sqlCompare(a.title, b.title) = -1

\* the sorter: r is placed before the first row it sorts strictly before
InsertSorted(sorted, r) ==
    LET later == {i \in 1..Len(sorted) : SortsBefore(r, sorted[i])}
        pos == IF later = {} THEN Len(sorted) + 1 ELSE CHOOSE i \in later : \A j \in later : i <= j
    IN  SubSeq(sorted, 1, pos - 1) \o <<r>> \o SubSeq(sorted, pos, Len(sorted))

\* SELECT * FROM movies ORDER BY year DESC, title ASC: a scan in rowid
\* order feeding the sorter
RECURSIVE SortScan(_, _, _)
SortScan(table, todo, sorted) ==
    IF todo = {} THEN sorted
    ELSE LET id == CHOOSE i \in todo : \A j \in todo : i <= j
         IN  SortScan(table, todo \ {id}, InsertSorted(sorted, table[id]))

SelectAll(table) == SortScan(table, DOMAIN table, <<>>)

\* a SELECT without its WHERE clause: the first row of the table
SelectFirst(table, id) ==
    IF DOMAIN table = {} THEN NoRow ELSE table[CHOOSE i \in DOMAIN table : \A j \in DOMAIN table : i <= j]

\* SELECT * FROM movies WHERE id = ?
SelectById(table, id) == IF id \in DOMAIN table THEN table[id] ELSE NoRow

\* the table without / with a row
DeleteRow(table, id) == [i \in DOMAIN table \ {id} |-> table[i]]

PutRow(table, r) == [i \in DOMAIN table \cup {r.id} |-> IF i = r.id THEN r ELSE table[i]]

\* ------------------------------------------------------------ the state machine
\* what the latest step answered: the request (op, id, body, file part), the
\* row the handler's first SELECT found, the file it unlinked, and the
\* response (status, the row or the rows of the JSON body)
Resp(op, status, id, body, file, found, row, rows) ==
    [op |-> op, status |-> status, id |-> id, body |-> body, file |-> file,
     found |-> found, unlinked |-> NoFile, row |-> row, rows |-> rows]

\* no fetch result
NoOutcome == [kind |-> "none"]

\* an event the page handled: its kind, the panel a trigger names, the
\* data-trailer of a clicked card, the result a fetch settled with
Ev(type, panel, url) == [type |-> type, panel |-> panel, url |-> url, outcome |-> NoOutcome]

\* the page after its DOMContentLoaded handlers ran; saved is the value of
\* localStorage.getItem('theme')
PageLoaded(saved) ==
    [overlayActive |-> {}, overflow |-> "", modalActive |-> FALSE, iframeSrc |-> <<>>,
     navActive |-> FALSE, lightMode |-> (saved = "light"),
     projectsGrid |-> [state |-> "static", cards |-> <<>>],
     renderer |-> "awaiting", uncaught |-> FALSE]

\* a first visit: nothing is saved in localStorage
PageStart ==
    /\ theme = "null"
    /\ overlayActive = PageLoaded("null").overlayActive
    /\ overflow = PageLoaded("null").overflow
    /\ modalActive = PageLoaded("null").modalActive
    /\ iframeSrc = PageLoaded("null").iframeSrc
    /\ navActive = PageLoaded("null").navActive
    /\ lightMode = PageLoaded("null").lightMode
    /\ projectsGrid = PageLoaded("null").projectsGrid
    /\ renderer = PageLoaded("null").renderer
    /\ uncaught = PageLoaded("null").uncaught
    /\ event = Ev("load", "", <<>>)

\* start-up on a fresh database: the table is created empty and seeded
ServerStart ==
    /\ movies = [i \in 1..NumSeed |-> SeedRow(i, 0)]
    /\ seq = NumSeed
    /\ files = {}
    /\ fileCtr = 0
    /\ clock = 0
    /\ pending = {}
    /\ issued = [i \in 1..NumSeed |-> i]
    /\ uploaded = {}
    /\ last = Resp("init", 0, 0, NoBody, NoFile, NoRow, NoRow, <<>>)

Init == ServerStart /\ PageStart

\* CURRENT_TIMESTAMP advances
Tick ==
    /\ clock < MaxClock
    /\ clock' = clock + 1
    /\ last' = Resp("tick", 0, 0, NoBody, NoFile, NoRow, NoRow, <<>>)
    /\ UNCHANGED <<movies, seq, files, fileCtr, pending, issued, uploaded>>
    /\ UNCHANGED clientVars

\* app.get('/api/movies')
List ==
    /\ last' = Resp("list", 200, 0, NoBody, NoFile, NoRow, NoRow, SelectAll(movies))
    /\ UNCHANGED <<movies, seq, files, fileCtr, clock, pending, issued, uploaded>>
    /\ UNCHANGED clientVars

\* app.get('/api/movies/:id')
Get(id) ==
    /\ LET movie == SelectById(movies, id)
       IN  last' = IF movie = NoRow
                   THEN Resp("get", 404, id, NoBody, NoFile, NoRow, NoRow, <<>>)
                   ELSE Resp("get", 200, id, NoBody, NoFile, movie, movie, <<>>)
    /\ UNCHANGED <<movies, seq, files, fileCtr, clock, pending, issued, uploaded>>
    /\ UNCHANGED clientVars

\* the handler of app.post('/api/movies'); stored is req.file.filename or NoFile
CreateHandler(body, file, stored) ==
    LET poster_local == IF stored = NoFile THEN Null ELSE PosterLocal(stored)
        cols == Columns(body, poster_local)
        id == NextRowid(movies, seq)
        newMovie == Row(id, cols, clock, clock)
    IN  IF NotNullOk(cols)
        THEN /\ movies' = PutRow(movies, newMovie)
             /\ seq' = IF id > seq THEN id ELSE seq
             /\ issued' = Append(issued, id)
             /\ uploaded' = IF stored = NoFile THEN uploaded ELSE uploaded \cup {id}
             /\ last' = Resp("create", 201, id, body, file, NoRow, newMovie, <<>>)
             /\ UNCHANGED <<files, fileCtr, clock>>
        ELSE /\ last' = Resp("create", 500, 0, body, file, NoRow, NoRow, <<>>)
             /\ UNCHANGED <<movies, seq, issued, uploaded, files, fileCtr, clock>>

\* a partial update: a column the request omits keeps its value
SetListPartial(existingMovie, body, poster_local) ==
    LET cols == Columns(body, poster_local)
    IN  [c \in DOMAIN cols |->
            IF c \in Fields /\ body[c] = Undefined THEN existingMovie[c] ELSE cols[c]]

\* the SET list of the UPDATE: every column is assigned from the request
SetList(existingMovie, body, poster_local) == Columns(body, poster_local)

\* the handler of app.put('/api/movies/:id'); unlinkFails: fs.unlinkSync throws
UpdateHandler(id, body, file, stored, unlinkFails) ==
    LET existingMovie == SelectById(movies, id)
        removeOld == /\ stored # NoFile
                     /\ existingMovie.poster_local # Null
                     /\ existsSync(files, existingMovie.poster_local)
        poster_local == IF stored # NoFile THEN PosterLocal(stored)
                        ELSE existingMovie.poster_local
        cols == SetList(existingMovie, body, poster_local)
        updatedMovie == Row(id, cols, existingMovie.created_at, clock)
        disk == IF removeOld THEN files \ {DiskFile(existingMovie.poster_local)} ELSE files
        unlinked == IF removeOld THEN DiskFile(existingMovie.poster_local) ELSE NoFile
    IN  IF existingMovie = NoRow
        THEN /\ last' = Resp("update", 404, id, body, file, NoRow, NoRow, <<>>)
             /\ UNCHANGED <<movies, seq, issued, uploaded, files, fileCtr, clock>>
        ELSE IF removeOld /\ unlinkSyncThrows(files, existingMovie.poster_local, unlinkFails)
        THEN /\ last' = Resp("update", 500, id, body, file, existingMovie, NoRow, <<>>)
             /\ UNCHANGED <<movies, seq, issued, uploaded, files, fileCtr, clock>>
        ELSE IF ~NotNullOk(cols)
        THEN /\ files' = disk
             /\ last' = [Resp("update", 500, id, body, file, existingMovie, NoRow, <<>>)
                           EXCEPT !.unlinked = unlinked]
             /\ UNCHANGED <<movies, seq, issued, uploaded, fileCtr, clock>>
        ELSE /\ files' = disk
             /\ movies' = PutRow(movies, updatedMovie)
             /\ last' = [Resp("update", 200, id, body, file, existingMovie, updatedMovie, <<>>)
                           EXCEPT !.unlinked = unlinked]
             /\ UNCHANGED <<seq, issued, uploaded, fileCtr, clock>>

\* POST /api/movies without a file part: multer stores nothing
PostNoFile(body, cap) ==
    /\ Len(issued) < NumSeed + cap
    /\ CreateHandler(body, NoFile, NoFile)
    /\ UNCHANGED <<pending, clientVars>>

\* PUT /api/movies/:id without a file part
PutNoFile(id, body) ==
    /\ UpdateHandler(id, body, NoFile, NoFile, FALSE)
    /\ UNCHANGED <<pending, clientVars>>

\* upload.single('poster'): the file filter refuses the file; the error goes
\* to the default error handler of Express, which answers 500. The verdict
\* reads the file part only, so the text fields are no input of this step
MulterReject(method, id, file) ==
    /\ ~fileFilter(file)
    /\ last' = Resp(IF method = "POST" THEN "create" ELSE "update", 500, id, NoBody, file,
                    NoRow, NoRow, <<>>)
    /\ UNCHANGED <<movies, seq, files, fileCtr, clock, pending, issued, uploaded>>
    /\ UNCHANGED clientVars

\* upload.single('poster'): the file passes the filter and exceeds
\* limits.fileSize; multer removes what it wrote and passes LIMIT_FILE_SIZE
\* to the default error handler of Express, which answers 500
MulterLimit(method, id, file) ==
    /\ fileFilter(file)
    /\ file.size > fileSize
    /\ fileCtr < MaxUploads
    /\ fileCtr' = fileCtr + 1
    /\ last' = Resp(IF method = "POST" THEN "create" ELSE "update", 500, id, NoBody, file,
                    NoRow, NoRow, <<>>)
    /\ UNCHANGED <<movies, seq, files, clock, pending, issued, uploaded>>
    /\ UNCHANGED clientVars

\* upload.single('poster'): the file is written to uploads/posters and the
\* request goes on to its handler. The text fields are read by the handler
\* only, so they are an input of the handler's step
MulterStore(method, id, file) ==
    /\ fileFilter(file)
    /\ file.size <= fileSize
    /\ fileCtr < MaxUploads
    /\ Cardinality(pending) < MaxPending
    /\ method = "POST" => Len(issued) < NumSeed + MaxCreates
    /\ files' = files \cup {filename(fileCtr, file)}
    /\ fileCtr' = fileCtr + 1
    /\ pending' = pending \cup {[method |-> method, id |-> id, file |-> file,
                                 stored |-> filename(fileCtr, file)]}
    /\ last' = Resp("multer", 0, id, NoBody, file, NoRow, NoRow, <<>>)
    /\ UNCHANGED <<movies, seq, clock, issued, uploaded>>
    /\ UNCHANGED clientVars

\* the handler of a POST whose file is stored
HandlePost(req, body) ==
    /\ req.method = "POST"
    /\ Len(issued) < NumSeed + MaxCreates
    /\ CreateHandler(body, req.file, req.stored)
    /\ pending' = pending \ {req}
    /\ UNCHANGED clientVars

\* the handler of a PUT whose file is stored
HandlePut(req, body, unlinkFails) ==
    /\ req.method = "PUT"
    /\ UpdateHandler(req.id, body, req.file, req.stored, unlinkFails)
    /\ pending' = pending \ {req}
    /\ UNCHANGED clientVars

\* app.delete('/api/movies/:id'); unlinkFails: fs.unlinkSync throws
Delete(id, unlinkFails) ==
    LET movie == SelectById(movies, id)
        removeFile == /\ movie.poster_local # Null
                      /\ existsSync(files, movie.poster_local)
    IN  /\ IF movie = NoRow
           THEN /\ last' = Resp("delete", 404, id, NoBody, NoFile, NoRow, NoRow, <<>>)
                /\ UNCHANGED <<movies, files>>
           ELSE IF removeFile /\ unlinkSyncThrows(files, movie.poster_local, unlinkFails)
           THEN /\ last' = Resp("delete", 500, id, NoBody, NoFile, movie, NoRow, <<>>)
                /\ UNCHANGED <<movies, files>>
           ELSE /\ files' = IF removeFile THEN files \ {DiskFile(movie.poster_local)} ELSE files
                /\ movies' = DeleteRow(movies, id)
                /\ last' = [Resp("delete", 200, id, NoBody, NoFile, movie, NoRow, <<>>)
                              EXCEPT !.unlinked = IF removeFile THEN DiskFile(movie.poster_local)
                                                  ELSE NoFile]
        /\ UNCHANGED <<seq, fileCtr, clock, pending, issued, uploaded>>
        /\ UNCHANGED clientVars

Next ==
    \/ List
    \/ \E id \in Ids : Get(id)
    \/ \E body \in Bodies : PostNoFile(body, MaxCreates)
    \/ \E id \in Ids, body \in Bodies : PutNoFile(id, body)
    \/ \E file \in Uploads : MulterReject("POST", 0, file)
    \/ \E id \in Ids, file \in Uploads : MulterReject("PUT", id, file)
    \/ \E file \in Uploads : MulterLimit("POST", 0, file)
    \/ \E id \in Ids, file \in Uploads : MulterLimit("PUT", id, file)
    \/ \E file \in Uploads : MulterStore("POST", 0, file)
    \/ \E id \in Ids, file \in Uploads : MulterStore("PUT", id, file)
    \/ \E req \in pending, body \in Bodies : HandlePost(req, body)
    \/ \E req \in pending, body \in Bodies, unlinkFails \in BOOLEAN : HandlePut(req, body, unlinkFails)
    \/ \E id \in Ids, unlinkFails \in BOOLEAN : Delete(id, unlinkFails)

\* every request, with uploads
Spec == Init /\ [][Next]_vars

\* the rows the seeding inserts into an empty table
Seeded(table, s, now) ==
    [id \in (s + 1)..(s + NumSeed) |-> [SeedRow(id - s, now) EXCEPT !.id = id]]

\* the server process dies and is started again: the requests between multer
\* and their handler are lost, the table and the files stay, and an empty
\* table is seeded
Crash ==
    /\ DOMAIN movies = {} => Len(issued) + NumSeed <= NumSeed + MaxCreates
    /\ pending' = {}
    /\ IF DOMAIN movies = {}
       THEN /\ movies' = Seeded(movies, seq, clock)
            /\ seq' = seq + NumSeed
            /\ issued' = issued \o [i \in 1..NumSeed |-> seq + i]
       ELSE UNCHANGED <<movies, seq, issued>>
    /\ last' = Resp("crash", 0, 0, NoBody, NoFile, NoRow, NoRow, <<>>)
    /\ UNCHANGED <<files, fileCtr, clock, uploaded>>
    /\ UNCHANGED clientVars

\* a poster file disappears from uploads/posters outside the server (removed
\* by hand, a database restored next to an older uploads directory)
FileLost(name) ==
    /\ name \in files
    /\ files' = files \ {name}
    /\ last' = Resp("lost", 0, 0, NoBody, NoFile, NoRow, NoRow, <<>>)
    /\ UNCHANGED <<movies, seq, fileCtr, clock, pending, issued, uploaded>>
    /\ UNCHANGED clientVars

NextMissing ==
    \/ \E file \in Uploads : MulterStore("POST", 0, file)
    \/ \E id \in Ids, file \in Uploads : MulterStore("PUT", id, file)
    \/ \E req \in pending, body \in Bodies : HandlePost(req, body)
    \/ \E req \in pending, body \in Bodies, unlinkFails \in BOOLEAN : HandlePut(req, body, unlinkFails)
    \/ \E id \in Ids, unlinkFails \in BOOLEAN : Delete(id, unlinkFails)
    \/ \E name \in files : FileLost(name)

\* the requests that touch poster files, with files going missing
SpecMissing == Init /\ [][NextMissing]_vars

\* the bodies under SpecUpdate
UpdateBodies == {bodyTitleOnly, bodyJson, bodyNoTitle}

NextUpdate ==
    \/ Tick
    \/ \E body \in UpdateBodies : PostNoFile(body, MaxCreates)
    \/ \E id \in Ids, body \in UpdateBodies : PutNoFile(id, body)
    \/ \E file \in Uploads : MulterStore("POST", 0, file)
    \/ \E id \in Ids, file \in Uploads : MulterStore("PUT", id, file)
    \/ \E req \in pending, body \in UpdateBodies : HandlePost(req, body)
    \/ \E req \in pending, body \in UpdateBodies, unlinkFails \in BOOLEAN :
          HandlePut(req, body, unlinkFails)

\* creates and updates, with and without uploads, with the clock advancing
SpecUpdate == Init /\ [][NextUpdate]_vars

NextCrash ==
    \/ Next
    \/ Crash

\* every request, with uploads, and the server dying at any point
SpecCrash == Init /\ [][NextCrash]_vars

NextRows ==
    \/ List
    \/ \E id \in RowIds : Get(id)
    \/ \E body \in RowBodies : PostNoFile(body, MaxInserts)
    \/ \E id \in RowIds, body \in RowBodies : PutNoFile(id, body)
    \/ \E id \in RowIds : Delete(id, FALSE)

\* the requests without a file part, over a larger table
SpecRows == Init /\ [][NextRows]_vars

NextClock ==
    \/ Tick
    \/ \E id \in Ids : Get(id)
    \/ \E body \in TitleBodies : PostNoFile(body, MaxCreates)
    \/ \E id \in Ids, body \in TitleBodies : PutNoFile(id, body)
    \/ \E id \in Ids : Delete(id, FALSE)

\* the requests without a file part, with the clock advancing between them
SpecClock == Init /\ [][NextClock]_vars

\* ================================================================= the page
\* main.js, run by the browser. Every action below is one event handled to
\* its end: all the listeners the event reaches, in the order main.js
\* registers them.

\* the data-overlay-panel values of the overlay panels
Panels == {"services", "work", "team", "contact"}

\* the data-overlay values of the triggers; "press" names no panel
Triggers == Panels \cup {"press"}

\* ------------------------------------------------------------- getEmbedUrl
\* 'youtube.com/watch?v=', 'youtu.be/'
watchForm == <<121,111,117,116,117,98,101,46,99,111,109,47,119,97,116,99,104,63,118,61>>
shortForm == <<121,111,117,116,117,46,98,101,47>>
\* 'https://www.youtube.com/embed/', '?autoplay=1&rel=0'
embedPrefix == <<104,116,116,112,115,58,47,47,119,119,119,46,121,111,117,116,117,98,101,46,99,111,109,47,101,109,98,101,100,47>>
embedSuffix == <<63,97,117,116,111,112,108,97,121,61,49,38,114,101,108,61,48>>

\* the literal pat matches s at position i
MatchesAt(s, pat, i) ==
    i + Len(pat) - 1 <= Len(s) /\ SubSeq(s, i, i + Len(pat) - 1) = pat

\* the position after (?:youtube\.com\/watch\?v=|youtu\.be\/) matched at i,
\* 0 when neither alternative matches there
AfterForm(s, i) ==
    IF MatchesAt(s, watchForm, i) THEN i + Len(watchForm)
    ELSE IF MatchesAt(s, shortForm, i) THEN i + Len(shortForm)
    ELSE 0

\* ([^&]+) from position j: the longest run of characters other than '&'
Capture(s, j) ==
    LET stops == {k \in j..Len(s) : s[k] = 38}
        end == IF stops = {} THEN Len(s) ELSE (CHOOSE k \in stops : \A l \in stops : k <= l) - 1
    IN  SubSeq(s, j, end)

\* url.match(...): the positions where the whole expression matches
MatchPositions(s) ==
    {i \in 1..Len(s) : AfterForm(s, i) # 0 /\ Capture(s, AfterForm(s, i)) # <<>>}

getEmbedUrl(url) ==
    LET at == MatchPositions(url)
        first == CHOOSE i \in at : \A k \in at : i <= k
    IN  IF at # {}
        THEN embedPrefix \o Capture(url, AfterForm(url, first)) \o embedSuffix
        ELSE url

\* values of a card's data-trailer attribute; <<>> is a card without one
\* '', 'https://', 'https://www.'
UrlSchemes == {<<>>, <<104,116,116,112,115,58,47,47>>, <<104,116,116,112,115,58,47,47,119,119,119,46>>}
\* the two forms, 'vimeo.com/', 'youtube.com/watch?feature=share&v='
UrlHosts == {<<121,111,117,116,117,98,101,46,99,111,109,47,119,97,116,99,104,63,118,61>>, <<121,111,117,116,117,46,98,101,47>>, <<118,105,109,101,111,46,99,111,109,47>>, <<121,111,117,116,117,98,101,46,99,111,109,47,119,97,116,99,104,63,102,101,97,116,117,114,101,61,115,104,97,114,101,38,118,61>>}
\* '', 'dQw4', 'a-_9'
UrlIds == {<<>>, <<100,81,119,52>>, <<97,45,95,57>>}
\* '', '&t=5', '?t=5', '#t=5'
UrlTails == {<<>>, <<38,116,61,53>>, <<63,116,61,53>>, <<35,116,61,53>>}
TrailerUrls ==
    {<<>>} \cup {s \o h \o i \o t : s \in UrlSchemes, h \in UrlHosts, i \in UrlIds, t \in UrlTails}

\* the data-trailer values of the cards under SpecPage
\* no trailer, 'https://youtu.be/dQw4', 'https://www.vimeo.com/a-_9'
CardTrailers == {<<>>, <<104,116,116,112,115,58,47,47>> \o <<121,111,117,116,117,46,98,101,47>> \o <<100,81,119,52>>, <<104,116,116,112,115,58,47,47,119,119,119,46>> \o <<118,105,109,101,111,46,99,111,109,47>> \o <<97,45,95,57>>}

\* ---------------------------------------------------------------- overlays
\* a close that removes 'active' from no panel
closeAllOverlaysKeep(active) == active

\* forEach panel: classList.remove('active')
closeAllOverlays(active) == {}

\* querySelector finds the panel, or null for an id no panel has
openOverlay(active, panelId) ==
    IF panelId \in Panels THEN active \cup {panelId} ELSE active

\* click on a [data-overlay] trigger: closeAllOverlays(), openOverlay(panelId)
TriggerClick(panelId) ==
    /\ overlayActive' = openOverlay(closeAllOverlays(overlayActive), panelId)
    /\ overflow' = IF panelId \in Panels THEN "hidden" ELSE ""
    /\ event' = Ev("trigger", panelId, <<>>)
    /\ UNCHANGED <<modalActive, iframeSrc, navActive, lightMode, theme,
                   projectsGrid, renderer, uncaught>>
    /\ UNCHANGED serverVars

\* click on an .overlay-logo-close button (type "logoClose") or on the
\* [data-close-overlay] logo link (type "logo"): closeAllOverlays()
CloseClick(type) ==
    /\ overlayActive' = closeAllOverlays(overlayActive)
    /\ overflow' = ""
    /\ event' = Ev(type, "", <<>>)
    /\ UNCHANGED <<modalActive, iframeSrc, navActive, lightMode, theme,
                   projectsGrid, renderer, uncaught>>
    /\ UNCHANGED serverVars

\* keydown of Escape: the trailer modal's listener closes an active modal,
\* then the overlays' listener runs closeAllOverlays()
Escape ==
    /\ modalActive' = FALSE
    /\ iframeSrc' = IF modalActive THEN <<>> ELSE iframeSrc
    /\ overlayActive' = closeAllOverlays(overlayActive)
    /\ overflow' = ""
    /\ event' = Ev("escape", "", <<>>)
    /\ UNCHANGED <<navActive, lightMode, theme, projectsGrid, renderer, uncaught>>
    /\ UNCHANGED serverVars

\* ------------------------------------------------------------ trailer modal
\* click on the poster of a card whose data-trailer is trailerUrl
PosterClick(trailerUrl) ==
    /\ IF trailerUrl # <<>>
       THEN /\ iframeSrc' = getEmbedUrl(trailerUrl)
            /\ modalActive' = TRUE
            /\ overflow' = "hidden"
       ELSE UNCHANGED <<iframeSrc, modalActive, overflow>>
    /\ event' = Ev("poster", "", trailerUrl)
    /\ UNCHANGED <<overlayActive, navActive, lightMode, theme,
                   projectsGrid, renderer, uncaught>>
    /\ UNCHANGED serverVars

\* closeModal(), by the close button or by a click on the backdrop
ModalClose(type) ==
    /\ modalActive' = FALSE
    /\ iframeSrc' = <<>>
    /\ overflow' = ""
    /\ event' = Ev(type, "", <<>>)
    /\ UNCHANGED <<overlayActive, navActive, lightMode, theme,
                   projectsGrid, renderer, uncaught>>
    /\ UNCHANGED serverVars

\* -------------------------------------------------------------- mobile menu
\* click on the mobile menu toggle
MenuToggleClick ==
    /\ navActive' = ~navActive
    /\ overflow' = IF navActive' THEN "hidden" ELSE ""
    /\ event' = Ev("menuToggle", "", <<>>)
    /\ UNCHANGED <<overlayActive, modalActive, iframeSrc, lightMode, theme,
                   projectsGrid, renderer, uncaught>>
    /\ UNCHANGED serverVars

\* click on a link of the mobile menu
NavLinkClick ==
    /\ navActive' = FALSE
    /\ overflow' = ""
    /\ event' = Ev("navLink", "", <<>>)
    /\ UNCHANGED <<overlayActive, modalActive, iframeSrc, lightMode, theme,
                   projectsGrid, renderer, uncaught>>
    /\ UNCHANGED serverVars

\* ------------------------------------------------------------- theme toggle
\* a toggle that always saves 'light'
themeValueLight(isLightMode) == "light"

\* the value of localStorage.setItem('theme', isLightMode ? 'light' : 'dark')
themeValue(isLightMode) == IF isLightMode THEN "light" ELSE "dark"

\* click on the theme toggle
ThemeToggleClick ==
    /\ lightMode' = ~lightMode
    /\ theme' = themeValue(lightMode')
    /\ event' = Ev("themeToggle", "", <<>>)
    /\ UNCHANGED <<overlayActive, overflow, modalActive, iframeSrc, navActive,
                   projectsGrid, renderer, uncaught>>
    /\ UNCHANGED serverVars

\* ---------------------------------------------------------------- page load
\* the page is loaded again (a reload or a later visit): the document starts
\* over, localStorage stays, the DOMContentLoaded handlers run and the render
\* handler waits for its fetch
PageLoad ==
    /\ overlayActive' = PageLoaded(theme).overlayActive
    /\ overflow' = PageLoaded(theme).overflow
    /\ modalActive' = PageLoaded(theme).modalActive
    /\ iframeSrc' = PageLoaded(theme).iframeSrc
    /\ navActive' = PageLoaded(theme).navActive
    /\ lightMode' = PageLoaded(theme).lightMode
    /\ projectsGrid' = PageLoaded(theme).projectsGrid
    /\ renderer' = PageLoaded(theme).renderer
    /\ uncaught' = PageLoaded(theme).uncaught
    /\ event' = Ev("load", "", <<>>)
    /\ UNCHANGED theme
    /\ UNCHANGED serverVars

\* ------------------------------------------------------ the project renderer
MaxProjects == 3    \* length of the fetched project list

\* an element of the fetched array
Project(title, year) == [t |-> "object", title |-> Str(title), year |-> year]

\* 'B' 2020, 'A' 2020, 'C' 2018, 'D' 2022, 'E' without a year, 'A' with year null
ProjectPool ==
    {Project(<<66>>, Num(2020)), Project(<<65>>, Num(2020)), Project(<<67>>, Num(2018)),
     Project(<<68>>, Num(2022)), Project(<<69>>, Undefined), Project(<<65>>, JsNull)}

\* the lists of different projects of at most n elements
RECURSIVE ProjectLists(_)
ProjectLists(n) ==
    IF n = 0 THEN {<<>>}
    ELSE LET shorter == ProjectLists(n - 1)
         IN  shorter \cup
             UNION {{Append(l, m) : m \in {q \in ProjectPool : \A i \in 1..Len(l) : l[i] # q}} :
                       l \in {k \in shorter : Len(k) = n - 1}}

Array(items) == [kind |-> "json", value |-> [t |-> "array", items |-> items]]

\* what the fetch of the project list can settle with: fetch rejects, the
\* body is not JSON (an HTML error page, a cut-off file), the body is JSON
\* and no array, an array with a null element, an array of projects
Outcomes ==
    {[kind |-> "network"], [kind |-> "notjson"],
     [kind |-> "json", value |-> [t |-> "object", items |-> <<>>]],
     [kind |-> "json", value |-> [t |-> "jsnull", items |-> <<>>]],
     Array(<<JsNull>>),
     Array(<<Project(<<66>>, Num(2020)), JsNull>>)}
    \cup {Array(l) : l \in ProjectLists(MaxProjects)}

\* the outcomes under SpecPage
PageOutcomes ==
    {[kind |-> "network"], Array(<<>>),
     Array(<<Project(<<66>>, Num(2020)), Project(<<65>>, Num(2020))>>)}

\* (b.year || 0) - (a.year || 0)
compareFn(a, b) ==
    (IF Truthy(b.year) THEN b.year.n ELSE 0) - (IF Truthy(a.year) THEN a.year.n ELSE 0)

\* Array.prototype.sort with compareFn: a stable sort
RECURSIVE sort(_)
sort(list) ==
    IF list = <<>> THEN <<>>
    ELSE LET init == sort(SubSeq(list, 1, Len(list) - 1))
             x == list[Len(list)]
             k == Cardinality({i \in 1..Len(init) : compareFn(init[i], x) <= 0})
         IN  SubSeq(init, 1, k) \o <<x>> \o SubSeq(init, k + 1, Len(init))

Shown(state, cards) == [state |-> state, cards |-> cards, uncaught |-> FALSE]

\* a render handler whose fetch is outside its try block
RenderNoCatch(outcome) ==
    IF outcome.kind = "network"
    THEN [state |-> "static", cards |-> <<>>, uncaught |-> TRUE]
    ELSE Shown("unable", <<>>)

\* the render handler from the settling of its fetch to its end: what the
\* grid shows and whether an error left the handler. response.json() rejects
\* on a body that is not JSON, movies.sort is no function on a value that is
\* no array, and reading a property of a null element throws: each inside
\* the try block
Render(outcome) ==
    IF outcome.kind \in {"network", "notjson"} THEN Shown("unable", <<>>)
    ELSE IF outcome.value.t # "array" THEN Shown("unable", <<>>)
    ELSE LET movies_ == outcome.value.items
         IN  IF movies_ = <<>> THEN Shown("empty", <<>>)
             ELSE IF \E i \in 1..Len(movies_) : movies_[i].t # "object"
             THEN Shown("unable", <<>>)
             ELSE Shown("cards", sort(movies_))

\* the fetch settles and the render handler runs to its end
FetchSettles(outcome) ==
    /\ renderer = "awaiting"
    /\ projectsGrid' = [state |-> Render(outcome).state, cards |-> Render(outcome).cards]
    /\ uncaught' = Render(outcome).uncaught
    /\ renderer' = "finished"
    /\ event' = [Ev("fetch", "", <<>>) EXCEPT !.outcome = outcome]
    /\ UNCHANGED <<overlayActive, overflow, modalActive, iframeSrc, navActive,
                   lightMode, theme>>
    /\ UNCHANGED serverVars

\* ------------------------------------------------------------ the page specs
NextPage ==
    \/ \E panelId \in Triggers : TriggerClick(panelId)
    \/ \E type \in {"logoClose", "logo"} : CloseClick(type)
    \/ Escape
    \/ \E trailerUrl \in CardTrailers : PosterClick(trailerUrl)
    \/ \E type \in {"closeBtn", "backdrop"} : ModalClose(type)
    \/ MenuToggleClick
    \/ NavLinkClick
    \/ ThemeToggleClick
    \/ PageLoad
    \/ \E outcome \in PageOutcomes : FetchSettles(outcome)

\* every event of the page
SpecPage == Init /\ [][NextPage]_vars

NextTrailer ==
    \/ \E trailerUrl \in TrailerUrls : PosterClick(trailerUrl)
    \/ \E type \in {"closeBtn", "backdrop"} : ModalClose(type)

\* the trailer modal over every card
SpecTrailer == Init /\ [][NextTrailer]_vars

NextRender ==
    \/ PageLoad
    \/ \E outcome \in Outcomes : FetchSettles(outcome)

\* the project renderer over every fetch result
SpecRender == Init /\ [][NextRender]_vars

\* ===================================================================== claims

\* C1: the id assigned by a successful INSERT differs from every id assigned
\* by an earlier INSERT, also after the rows holding those ids were deleted
\* (the row with the highest id included, and when the table became empty).
C1_IdNeverReused ==
    \A i, j \in 1..Len(issued) : i < j => issued[i] # issued[j]

\* a create answered 201 after every earlier row, the one with the highest
\* id included, was deleted: the table holds the new row alone
C1_Witness ==
    /\ last.op = "create"
    /\ last.status = 201
    /\ Len(issued) >= 3
    /\ DOMAIN movies = {last.id}

\* the order the listing contract states, written without the sorter's
\* comparison: a missing year is lower than any present year
ContractYearGt(a, b) ==
    /\ a.year # Null
    /\ (b.year = Null \/ a.year.n > b.year.n)

ContractYearEq(a, b) ==
    \/ a.year = Null /\ b.year = Null
    \/ a.year # Null /\ b.year # Null /\ a.year.n = b.year.n

\* s <= t, lexically
LexLe(s, t) ==
    \/ Len(s) <= Len(t) /\ SubSeq(t, 1, Len(s)) = s
    \/ \E k \in 1..Len(s) :
          /\ k <= Len(t)
          /\ SubSeq(s, 1, k - 1) = SubSeq(t, 1, k - 1)
          /\ s[k] < t[k]

\* C2: the listing returns every row of the table exactly once, and for any
\* two returned rows A before B either A.year > B.year, or the years are
\* equal and A.title <= B.title; a missing year is the lowest year.
C2_ListSorted ==
    last.op = "list" =>
        /\ Len(last.rows) = Cardinality(DOMAIN movies)
        /\ \A id \in DOMAIN movies : \E i \in 1..Len(last.rows) : last.rows[i] = movies[id]
        /\ \A i, j \in 1..Len(last.rows) :
              i < j =>
                 \/ ContractYearGt(last.rows[i], last.rows[j])
                 \/ /\ ContractYearEq(last.rows[i], last.rows[j])
                    /\ LexLe(last.rows[i].title.s, last.rows[j].title.s)

\* a listing of two different present years, the later one shared by two
\* rows of different titles, followed by a row without a year
C2_Witness ==
    /\ last.op = "list"
    /\ \E i, j, k, l \in 1..Len(last.rows) :
          /\ i < j /\ j < k /\ k < l
          /\ last.rows[i].year # Null /\ last.rows[j].year # Null
          /\ last.rows[i].year.n > last.rows[j].year.n
          /\ last.rows[k].year = last.rows[j].year
          /\ last.rows[k].title # last.rows[j].title
          /\ last.rows[l].year = Null

\* C3: a delete answered 200 of a row whose poster_local names a file on disk
\* removes exactly that file and the row; a delete answered 200 of a row whose
\* poster_local is null removes the row and leaves the files as they were.
C3_DeleteRemovesFile ==
    [][(last'.op = "delete" /\ last'.status = 200) =>
          /\ last'.id \in DOMAIN movies
          /\ LET movie == movies[last'.id]
             IN  /\ (movie.poster_local # Null /\ movie.poster_local.file \in files) =>
                       /\ files' = files \ {movie.poster_local.file}
                       /\ movies' = DeleteRow(movies, last'.id)
                 /\ movie.poster_local = Null =>
                       /\ files' = files
                       /\ movies' = DeleteRow(movies, last'.id)]_vars

\* a delete answered 200 that unlinked the poster file of the row it deleted
C3_Witness ==
    /\ last.op = "delete"
    /\ last.status = 200
    /\ last.found.poster_local # Null
    /\ last.unlinked = last.found.poster_local.file
    /\ last.unlinked \notin files
    /\ last.id \notin DOMAIN movies

\* C4: after an update answered 200 that uploaded a poster, the row's
\* poster_local names the file multer stored for the request, that file is on
\* disk, and the file the row named before is not.
C4_PosterReplaced ==
    [][(last'.op = "update" /\ last'.status = 200 /\ last'.file # NoFile) =>
          /\ last'.id \in DOMAIN movies
          /\ \E req \in pending :
                /\ req \notin pending'
                /\ movies'[last'.id].poster_local = PosterLocal(req.stored)
                /\ req.stored \in files'
          /\ LET old == movies[last'.id].poster_local
             IN  old # Null =>
                    /\ old # movies'[last'.id].poster_local
                    /\ old.file \notin files']_vars

\* an update answered 200 that replaced a poster file that was on disk
C4_Witness ==
    /\ last.op = "update"
    /\ last.status = 200
    /\ last.file # NoFile
    /\ last.found.poster_local # Null
    /\ last.unlinked = last.found.poster_local.file
    /\ movies[last.id].poster_local.file \in files

\* the extensions the contract allows, with their dot
AllowedExtensions ==
    {<<46,106,112,103>>, <<46,106,112,101,103>>, <<46,112,110,103>>, <<46,119,101,98,112>>}

\* C5: a create or update whose uploaded file has an extension outside
\* {jpg, jpeg, png, webp} is rejected, and the table and the stored files are
\* the same after the rejection as before the request.
C5_BadExtensionRejected ==
    [][(/\ last'.file # NoFile
        /\ toLowerCase(extname(last'.file.originalname)) \notin AllowedExtensions) =>
          /\ last'.op \in {"create", "update"}
          /\ last'.status >= 400
          /\ movies' = movies
          /\ files' = files]_vars

\* C6: a create or update whose uploaded file is larger than 5 MB is answered
\* with a 4xx status, not with 500, and no row is created or changed.
C6_TooLargeIsValidationFailure ==
    [][(last'.file # NoFile /\ last'.file.size > 5 * 1024 * 1024) =>
          /\ last'.op \in {"create", "update"}
          /\ last'.status >= 400 /\ last'.status <= 499
          /\ movies' = movies]_vars

\* the columns a request can leave out
OptionalColumns ==
    {"year", "poster_url", "poster_local", "dop", "bobo_crew", "imdb_url", "tmdb_url",
     "trailer_url", "production_company", "synopsis"}

\* C7: a create that carries a title, no other field and no file is answered
\* 201 with the persisted row: an id assigned by the store, the title as
\* sent, and every optional column null.
C7_TitleOnlyCreate ==
    (/\ last.op = "create"
     /\ last.file = NoFile
     /\ last.body.title.t = "string"
     /\ \A f \in Fields \ {"title"} : last.body[f] = Undefined) =>
        /\ last.status = 201
        /\ last.id >= 1
        /\ last.id = issued[Len(issued)]
        /\ last.id \in DOMAIN movies
        /\ last.row = movies[last.id]
        /\ last.row.id = last.id
        /\ last.row.title = [t |-> "text", s |-> last.body.title.s]
        /\ \A c \in OptionalColumns : last.row[c] = [t |-> "null"]

\* a create of {title: 'Test Film'} without a file was answered
C7_Witness ==
    /\ last.op = "create"
    /\ last.file = NoFile
    /\ last.body = bodyTitleOnly
    /\ last.status = 201

\* the ids assigned by POST requests
Created == {issued[k] : k \in (NumSeed + 1)..Len(issued)}

\* C8: a get of a created row returns the object the create returned as long
\* as no update or delete of that id happened; a delete of that id is then
\* answered 200; and every later get of that id is answered 404, whatever is
\* created afterwards.
C8_CreateGetDeleteGet ==
    [][/\ (last'.op = "create" /\ last'.status = 201) =>
             last'.row = movies'[last'.id]
       /\ \A id \in Created :
             (id \in DOMAIN movies /\ id \in DOMAIN movies' /\ movies'[id] # movies[id]) =>
                 (last'.op = "update" /\ last'.id = id)
       /\ (last'.op = "get" /\ last'.id \in Created /\ last'.id \in DOMAIN movies) =>
             (last'.status = 200 /\ last'.row = movies[last'.id])
       /\ (last'.op = "delete" /\ last'.id \in Created /\ last'.id \in DOMAIN movies) =>
             (last'.status = 200 /\ last'.id \notin DOMAIN movies')
       /\ \A id \in Created :
             id \notin DOMAIN movies =>
                 /\ id \notin DOMAIN movies'
                 /\ (last'.op = "get" /\ last'.id = id) => last'.status = 404]_vars

UploadRefused(r) ==
    /\ r.file # NoFile
    /\ ~(fileFilter(r.file) /\ r.file.size <= fileSize)

MutableFields == Fields \ {"title"}

\* the value a field of the request holds, as the column's type
Sent(f, v) == IF f = "year" THEN BindInteger(v) ELSE BindText(v)

\* C10 as stated: after an update answered 200 each mutable column equals the
\* value the request sent, and is null when the request omitted it.
C10_FullReplaceAsSent ==
    (last.op = "update" /\ last.status = 200) =>
        \A f \in MutableFields : movies[last.id][f] = Sent(f, last.body[f])

\* a field the request omits, or sends as '' or as the number 0
Blank(v) == v = Undefined \/ v = Str(<<>>) \/ v = Num(0)

\* C10 as amended: after an update answered 200 each mutable column equals
\* the value the request sent when that value is not blank, and is null when
\* the request omitted the field or sent it as the empty string or as the
\* number 0, whatever the column held before.
C10_FullReplace ==
    (last.op = "update" /\ last.status = 200) =>
        \A f \in MutableFields :
            /\ movies[last.id][f] = last.row[f]
            /\ Blank(last.body[f]) => movies[last.id][f] = [t |-> "null"]
            /\ ~Blank(last.body[f]) => movies[last.id][f] = Sent(f, last.body[f])

\* an update answered 200 whose request omitted a field the row held, which
\* is null afterwards, and sent another field with a value, which is stored
C10_Witness ==
    /\ last.op = "update"
    /\ last.status = 200
    /\ \E f \in MutableFields :
          /\ last.body[f] = Undefined
          /\ last.found[f] # Null
          /\ movies[last.id][f] = Null
    /\ \E f \in MutableFields :
          /\ ~Blank(last.body[f])
          /\ movies[last.id][f] # last.found[f]

\* C11: a delete of an existing row whose poster file is on disk and could
\* not be removed (the file is still on disk after the step) still deletes
\* the row and is answered 200.
C11_DeleteProceedsWhenUnlinkFails ==
    [][(/\ last'.op = "delete"
        /\ last'.id \in DOMAIN movies
        /\ movies[last'.id].poster_local # Null
        /\ existsSync(files, movies[last'.id].poster_local)
        /\ existsSync(files', movies[last'.id].poster_local)) =>
          (last'.status = 200 /\ last'.id \notin DOMAIN movies')]_vars

\* the request's title field is missing (not sent, or null) or empty
TitleMissing(body) == body.title \in {Undefined, JsNull, Str(<<>>)}

\* C12: every stored row has a title that is neither NULL nor the empty
\* string, and a create or update whose title is missing or empty is refused
\* with an error status.
C12_TitlePresent ==
    /\ \A id \in DOMAIN movies :
          movies[id].title # Null /\ movies[id].title # Text(<<>>)
    /\ (last.op \in {"create", "update"} /\ last.body # NoBody /\ TitleMissing(last.body)) =>
          last.status >= 400

\* C13: at most one overlay panel is active at any time, and right after a
\* click on the trigger of panel P, P is the only active panel.
C13_OnePanel ==
    /\ Cardinality(overlayActive) <= 1
    /\ (event.type = "trigger" /\ event.panel \in Panels) =>
          overlayActive = {event.panel}

\* the trigger of 'team' was clicked while the trailer modal and the mobile
\* menu were open
C13_Witness ==
    /\ event.type = "trigger"
    /\ event.panel = "team"
    /\ overlayActive = {"team"}
    /\ modalActive
    /\ navActive

\* C14: while an overlay panel is active the body's overflow is 'hidden',
\* whatever trailer-modal and mobile-menu events came in between; and when a
\* close (close button, logo, Escape) left no panel active, the overflow is
\* back to ''.
C14_ScrollSuppressedWhileOpen ==
    /\ overlayActive # {} => overflow = "hidden"
    /\ (event.type \in {"logoClose", "logo", "escape"} /\ overlayActive = {}) =>
          overflow = ""

\* the visual mode as the stored flag names it
Mode(isLightMode) == IF isLightMode THEN "light" ELSE "dark"

\* C15: the mode is dark on the first visit; each click on the theme toggle
\* switches the mode at once and stores the flag naming the new mode; a page
\* load applies the mode that was in effect before it, which is the mode after
\* the last toggle, since nothing except a toggle changes the mode.
C15_ThemePersists ==
    /\ ~lightMode
    /\ [][/\ event'.type = "themeToggle" =>
                (lightMode' = ~lightMode /\ theme' = Mode(lightMode'))
          /\ event'.type = "load" => lightMode' = lightMode
          /\ lightMode' # lightMode => event'.type = "themeToggle"]_vars

\* a page load that applies the light mode saved by an earlier toggle
C15_Witness ==
    /\ event.type = "load"
    /\ lightMode
    /\ theme = "light"

\* a character of a video identifier: a letter, a digit, '-' or '_'
IsIdChar(c) ==
    \/ c >= 48 /\ c <= 57
    \/ c >= 65 /\ c <= 90
    \/ c >= 97 /\ c <= 122
    \/ c = 45 \/ c = 95

\* the video identifier that starts at position j of url
VideoId(url, j) ==
    LET stops == {k \in j..Len(url) : ~IsIdChar(url[k])}
        end == IF stops = {} THEN Len(url) ELSE (CHOOSE k \in stops : \A l \in stops : k <= l) - 1
    IN  SubSeq(url, j, end)

\* the positions where url holds a watch form or a short-link form followed
\* by a video identifier
FormPositions(url) ==
    {i \in 1..Len(url) : AfterForm(url, i) # 0 /\ VideoId(url, AfterForm(url, i)) # <<>>}

\* C16: the iframe of an opened trailer shows the embed URL built from
\* exactly the video identifier when the card's URL holds a watch form or a
\* short-link form, and the card's URL itself otherwise.
C16_EmbedUrl ==
    (event.type = "poster" /\ event.url # <<>>) =>
        iframeSrc =
            IF FormPositions(event.url) # {}
            THEN LET first == CHOOSE i \in FormPositions(event.url) :
                                  \A k \in FormPositions(event.url) : i <= k
                 IN  embedPrefix \o VideoId(event.url, AfterForm(event.url, first)) \o embedSuffix
            ELSE event.url

\* the fetch did not deliver a list of projects
FetchFailed(outcome) ==
    \/ outcome.kind \in {"network", "notjson"}
    \/ outcome.kind = "json" /\ outcome.value.t # "array"
    \/ outcome.kind = "json" /\ outcome.value.t = "array"
          /\ \E i \in 1..Len(outcome.value.items) : outcome.value.items[i].t # "object"

\* C17: when the render handler has finished, whatever the fetch settled
\* with, no error left the handler and the grid shows the cards, the
\* empty-list message or the 'Unable to load projects' message: the cards for
\* a list that is not empty, the empty-list message for an empty list, and
\* 'Unable to load projects' for every failed fetch.
C17_RendererDegrades ==
    renderer = "finished" =>
        /\ ~uncaught
        /\ projectsGrid.state \in {"cards", "empty", "unable"}
        /\ FetchFailed(event.outcome) => projectsGrid.state = "unable"
        /\ (event.type = "fetch" /\ ~FetchFailed(event.outcome)) =>
              projectsGrid.state =
                  IF event.outcome.value.items = <<>> THEN "empty" ELSE "cards"

\* a fetch that was rejected ended in the 'Unable to load projects' message
C17_Witness ==
    /\ renderer = "finished"
    /\ event.type = "fetch"
    /\ event.outcome.kind = "network"
    /\ projectsGrid.state = "unable"

\* the project has a year
HasYear(m) == m.year.t = "number"

\* the listing order of two projects, a before b: a later year first, a
\* project without a year after every project with one, and the titles
\* ascending among projects of the same year or both without one
ListedBefore(a, b) ==
    IF HasYear(a) /\ HasYear(b)
    THEN a.year.n > b.year.n \/ (a.year.n = b.year.n /\ LexLe(a.title.s, b.title.s))
    ELSE IF HasYear(a) THEN TRUE
    ELSE IF HasYear(b) THEN FALSE
    ELSE LexLe(a.title.s, b.title.s)

\* C18: the rendered cards are the fetched projects in the listing order,
\* whatever the order of the fetched list.
C18_CardsInListingOrder ==
    (event.type = "fetch" /\ projectsGrid.state = "cards") =>
        /\ Len(projectsGrid.cards) = Len(event.outcome.value.items)
        /\ \A i \in 1..Len(projectsGrid.cards) :
              \E j \in 1..Len(event.outcome.value.items) :
                  projectsGrid.cards[i] = event.outcome.value.items[j]
        /\ \A i, j \in 1..Len(projectsGrid.cards) :
              i < j => ListedBefore(projectsGrid.cards[i], projectsGrid.cards[j])

\* C19: a POST with a file part inserts its row when the file is already on
\* disk; a row inserted by such a POST never names a poster file that is not
\* on disk, in any state, the states after a crash included; and a crash
\* between the write of the file and the INSERT changes neither the rows nor
\* the files, so that it leaves a file without a row at most.
C19_CreatedRecordHasItsFile ==
    /\ [][(last'.op = "create" /\ last'.status = 201 /\ last'.file # NoFile) =>
             /\ last'.id \in uploaded'
             /\ movies'[last'.id].poster_local # Null
             /\ existsSync(files, movies'[last'.id].poster_local)
             /\ existsSync(files', movies'[last'.id].poster_local)]_vars
    /\ [][(last'.op = "crash" /\ DOMAIN movies # {}) =>
             (movies' = movies /\ files' = files)]_vars
    /\ [](\A id \in uploaded \cap DOMAIN movies :
             movies[id].poster_local # Null => existsSync(files, movies[id].poster_local))

\* C20: a delete of a row whose poster_local names a file that is not on
\* disk is answered 200, removes the row and leaves the files alone; an
\* update with a new upload of such a row leaves the other files alone and
\* ends as it does when the old file is there: answered 200 with the row
\* replaced by the request's fields and the new poster whenever the request
\* has a title, and refused for the missing title otherwise.
C20_MissingFileIsNoOp ==
    [][/\ (/\ last'.op = "delete"
           /\ last'.id \in DOMAIN movies
           /\ movies[last'.id].poster_local # Null
           /\ DiskFile(movies[last'.id].poster_local) \notin files) =>
              /\ last'.status = 200
              /\ last'.id \notin DOMAIN movies'
              /\ files' = files
       /\ (/\ last'.op = "update"
           /\ last'.file # NoFile
           /\ last'.id \in DOMAIN movies
           /\ last'.body # NoBody
           /\ movies[last'.id].poster_local # Null
           /\ DiskFile(movies[last'.id].poster_local) \notin files) =>
              /\ files' = files
              /\ last'.status = IF BindText(last'.body.title) # Null THEN 200 ELSE 500
              /\ last'.status = 200 =>
                    /\ movies'[last'.id].poster_local \notin {Null, movies[last'.id].poster_local}
                    /\ movies'[last'.id] =
                          Row(last'.id, Columns(last'.body, movies'[last'.id].poster_local),
                              movies[last'.id].created_at, clock)
                    /\ last'.row = movies'[last'.id]
              /\ last'.status = 500 => movies' = movies]_vars

\* an update with a new upload succeeded on a row whose old poster file was
\* not on disk
C20_Witness ==
    /\ last.op = "update"
    /\ last.status = 200
    /\ last.file # NoFile
    /\ last.found # NoRow
    /\ last.found.poster_local # Null
    /\ last.unlinked = NoFile
    /\ last.row.poster_local # last.found.poster_local

\* the poster file of row r is on disk
PosterOnDisk(r, disk) == r.poster_local # Null /\ DiskFile(r.poster_local) \in disk

C22_PosterFilesExist ==
    pending = {} =>
        \A id \in DOMAIN movies :
            movies[id].poster_local # Null => existsSync(files, movies[id].poster_local)

\* the poster files that some row names
Referenced(table) ==
    {DiskFile(table[id].poster_local) : id \in {i \in DOMAIN table : table[i].poster_local # Null}}

\* C23: a create or update that its handler answers with 404 or 500 leaves
\* on disk the files that were there before the request: nothing but the
\* request's own stored upload, if it had one, is removed by the step, and
\* that upload is removed; and whenever no request is between multer and its
\* handler, every file on disk is named by a row.
C23_ErrorLeavesFiles ==
    /\ [][(/\ last'.op \in {"create", "update"}
           /\ last'.status \in {404, 500}
           /\ last'.body # NoBody) =>
             IF last'.file = NoFile
             THEN files' = files
             ELSE \E req \in pending \ pending' : files' = files \ {req.stored}]_vars
    /\ [](pending = {} => files \subseteq Referenced(movies))

====
